---------------------------- MODULE Spec2Model ----------------------------
(***************************************************************************)
(* Crossword CSP solver of src/crossword/generate.py (CrosswordCreator):   *)
(* node consistency, AC-3, the assignment validator and the backtracking   *)
(* search, as a state machine over one solve() call per process run.       *)
(*                                                                         *)
(* Words are sequences of one-letter strings.  A Python set is a TLA+ set  *)
(* together with the iteration order of the run (wordOrder, varOrder): the *)
(* order in which a set of strings or of Variables is iterated depends on  *)
(* the hash seed of the process, so it is chosen nondeterministically when *)
(* the process starts and is fixed for the run.  A Python dict (an         *)
(* assignment) is a sequence of <<variable, word>> pairs in insertion      *)
(* order.  Overlap index pairs are 0-based as in the source; <<>> is the   *)
(* None overlap.                                                           *)
(***************************************************************************)
EXTENDS Integers, Sequences, FiniteSets, TLC

\* ------------------------------------------------------------------ bounds
MaxWords == 3      \* largest word list
MaxVars == 3       \* largest puzzle (number of variables)
MaxRuns == 2       \* process runs of solve() on the same input

\* ------------------------------------------------- puzzle structure, words
ACROSS == "across"
DOWN == "down"

Variable(i, j, direction, length) ==
    [i |-> i, j |-> j, direction |-> direction, length |-> length]

\* cells[k] for k = 0 .. length-1 is cells(v)[k+1]
cells(v) ==
    [k \in 1..v.length |->
        << v.i + (IF v.direction = DOWN THEN k - 1 ELSE 0),
           v.j + (IF v.direction = ACROSS THEN k - 1 ELSE 0) >>]

CellSet(v) == {cells(v)[k] : k \in 1..v.length}

IndexOf(seq, e) == (CHOOSE k \in 1..Len(seq) : seq[k] = e) - 1

\* one entry of the overlaps dict: <<>> (None) when the variables share no
\* cell, else <<ix, iy>>
Overlap(x, y) ==
    LET intersection == CellSet(x) \cap CellSet(y)
    IN IF intersection = {} THEN <<>>
       ELSE LET p == CHOOSE c \in intersection : TRUE
            IN << IndexOf(cells(x), p), IndexOf(cells(y), p) >>

\* The grids:   P1 ___    P2 __    P3 __    P4a __    P4b __#    P5 ___
\*                           _#       #_        ##        ###       _#_
\*                                              __        ___
\*              P6 ___    P7 ___    P8 __#
\*                 _##       _#_       #_#
\*                           ___       ###
\*                                     ___
P1 == { Variable(0, 0, ACROSS, 3) }
P2 == { Variable(0, 0, ACROSS, 2), Variable(0, 0, DOWN, 2) }
P3 == { Variable(0, 0, ACROSS, 2), Variable(0, 1, DOWN, 2) }
P4a == { Variable(0, 0, ACROSS, 2), Variable(2, 0, ACROSS, 2) }
P4b == { Variable(0, 0, ACROSS, 2), Variable(2, 0, ACROSS, 3) }
P5 == { Variable(0, 0, ACROSS, 3), Variable(0, 0, DOWN, 2), Variable(0, 2, DOWN, 2) }
P6 == { Variable(0, 0, ACROSS, 3), Variable(0, 0, DOWN, 2) }
P7 == { Variable(0, 0, ACROSS, 3), Variable(2, 0, ACROSS, 3),
        Variable(0, 0, DOWN, 3), Variable(0, 2, DOWN, 3) }

P8 == { Variable(0, 0, ACROSS, 2), Variable(0, 1, DOWN, 2), Variable(3, 0, ACROSS, 3) }

\* the overlaps dict is filled once, when the Crossword is created
Variables == P1 \cup P2 \cup P3 \cup P4a \cup P4b \cup P5 \cup P6 \cup P7 \cup P8

overlapsDict == [x \in Variables, y \in Variables |-> Overlap(x, y)]

overlaps(x, y) == overlapsDict[x, y]

Puzzles ==
    {p \in {P1, P2, P3, P4a, P4b, P5, P6, P7, P8} : Cardinality(p) <= MaxVars}

Dictionary ==
    { <<"A", "B">>, <<"C", "A">>, <<"A", "B", "C">>, <<"C", "A", "B">> }

WordLists == {ws \in SUBSET Dictionary : Cardinality(ws) <= MaxWords}

\* all iteration orders of a finite set
Perms(S) ==
    {f \in [1..Cardinality(S) -> S] :
        \A a, b \in 1..Cardinality(S) : a # b => f[a] # f[b]}

VARIABLES
    puzzle,      \* crossword.variables
    words,       \* crossword.words
    wordOrder,   \* iteration order of sets of words in this run
    varOrder,    \* iteration order of sets of Variables in this run
    domains,     \* self.domains_of_x
    pc,          \* position of the run
    caller,      \* who called the ac3 in progress: "solve" or "backtrack"
    arcsArg,     \* the arcs argument of the ac3 call
    arcs,        \* the worklist of the ac3 in progress
    ac3ret,      \* return value of the last ac3 call: "", "True", "False"
    revised,     \* return value of the last revise call
    ac3Start,    \* domains when the ac3 in progress (or last finished) was called
    stack,       \* frames of the backtrack calls that are inside their loop
    assignment,  \* argument of the backtrack call / new_assignment of the iteration
    retval,      \* value being returned by a backtrack call
    result,      \* what solve() returned
    err,         \* exception that ended the run, "" if none
    ncEmptied,   \* enforce_node_consistency left some domain empty
    btInvoked,   \* backtrack was called in this run
    run,         \* number of the process run
    prev,        \* outcome of the previous run
    valArg,      \* the assignment given to consistent when called on its own
    valRet       \* what consistent answered to valArg

vars == << puzzle, words, wordOrder, varOrder, domains, pc, caller, arcsArg,
           arcs, ac3ret, revised, ac3Start, stack, assignment, retval, result,
           err, ncEmptied, btInvoked, run, prev, valArg, valRet >>

\* `for w in <set of words>` and `for v in <set of Variables>`
IterW(S) == SelectSeq(wordOrder, LAMBDA w : w \in S)
IterV(S) == SelectSeq(varOrder, LAMBDA v : v \in S)

neighbors(var) == {v \in puzzle : v # var /\ overlaps(v, var) # <<>>}

\* None and a returned dict
None == [none |-> TRUE, dict |-> <<>>]
Some(a) == [none |-> FALSE, dict |-> a]
NoArcs == [none |-> TRUE, list |-> <<>>]

\* the keys of a dict
keys(a) == {a[k][1] : k \in 1..Len(a)}

\* ------------------------------------------------------ node consistency
\* the length test with the comparison slipped: shorter words stay
KeepsLength_AtMost(word, var) == Len(word) <= var.length

\* line 104: a word stays in the domain of var when its length fits
KeepsLength(word, var) == Len(word) = var.length

enforce_node_consistency(doms) ==
    [var \in puzzle |-> {word \in doms[var] : KeepsLength(word, var)}]

\* --------------------------------------------------------------- revise
\* line 120: the list built for x_word holds one entry (True or None) per
\* word of Domain(y)
SupportList(doms, x_word, y, overlap) ==
    LET ys == IterW(doms[y])
    IN [k \in 1..Len(ys) |->
           IF ys[k][overlap[2] + 1] = x_word[overlap[1] + 1] THEN "True" ELSE "None"]

\* line 120: `not [...]` holds exactly when the list is empty
NotList(list) == list = <<>>

\* line 120: an index past the end of a word raises IndexError
IndexFails(doms, x_word, y, overlap) ==
    /\ doms[y] # {}
    /\ \/ overlap[1] >= Len(x_word)
       \/ \E y_word \in doms[y] : overlap[2] >= Len(y_word)

\* the loop that puts the whole word list back into Domain(x)
ReviseLoop_Refilling(doms, x, y, overlap, xs, k) ==
    [domains |-> [doms EXCEPT ![x] = words], revised |-> TRUE, raised |-> ""]

\* The loop of lines 119-122 from position k of the iteration over Domain(x).
\* Removing a word from the set being iterated makes the next step of the
\* iteration raise RuntimeError (also when the removed word was the last).
RECURSIVE ReviseLoop(_, _, _, _, _, _)
ReviseLoop(doms, x, y, overlap, xs, k) ==
    IF k > Len(xs)
    THEN [domains |-> doms, revised |-> FALSE, raised |-> ""]
    ELSE IF IndexFails(doms, xs[k], y, overlap)
    THEN [domains |-> doms, revised |-> FALSE, raised |-> "IndexError"]
    ELSE IF NotList(SupportList(doms, xs[k], y, overlap))
    THEN [domains |-> [doms EXCEPT ![x] = @ \ {xs[k]}],
          revised |-> TRUE, raised |-> "RuntimeError"]
    ELSE ReviseLoop(doms, x, y, overlap, xs, k + 1)

\* the revise that takes every word of x as unsupported when the two
\* variables share no cell
revise_Unconditional(doms, x, y) ==
    LET overlap == overlaps(x, y)
    IN IF overlap # <<>>
       THEN ReviseLoop(doms, x, y, overlap, IterW(doms[x]), 1)
       ELSE [domains |-> [doms EXCEPT ![x] = {}],
             revised |-> doms[x] # {}, raised |-> ""]

\* lines 116-124
revise(doms, x, y) ==
    LET overlap == overlaps(x, y)
    IN IF overlap # <<>>
       THEN ReviseLoop(doms, x, y, overlap, IterW(doms[x]), 1)
       ELSE [domains |-> doms, revised |-> FALSE, raised |-> ""]

\* ------------------------------------------------------------------ ac3
RECURSIVE Flatten(_)
Flatten(seqs) == IF seqs = <<>> THEN <<>> ELSE Head(seqs) \o Flatten(Tail(seqs))

SeqSet(seq) == {seq[k] : k \in 1..Len(seq)}

\* lines 136-139: every arc of the problem
AllArcs ==
    LET vs == IterV(puzzle)
    IN Flatten([a \in 1..Len(vs) |->
           LET ns == IterV(neighbors(vs[a]))
           IN [b \in 1..Len(ns) |-> << vs[a], ns[b] >>]])

\* lines 135-139: the worklist ac3 starts with
InitialArcs(arg) == IF arg.none \/ arg.list = <<>> THEN AllArcs ELSE arg.list

\* lines 148-152: the arcs appended after Domain(x) was revised against y
Enqueued(queue, x, y) ==
    LET ns == IterV(neighbors(x))
    IN queue \o SelectSeq([b \in 1..Len(ns) |-> << ns[b], x >>],
                          LAMBDA arc : arc[1] # y /\ arc \notin SeqSet(queue))

\* ------------------------------------------------------------ validator
\* the test that takes any dict over variables of the puzzle as complete
assignment_complete_Subset(a) == keys(a) \subseteq puzzle

\* line 160: the keys view compared with the set of variables
assignment_complete(a) == keys(a) = puzzle

\* lines 171-176 for the pair (a[m], a[n]): "skip", "ok", "False", "IndexError"
PairCheck(a, m, n) ==
    LET var1 == a[m][1]
        val1 == a[m][2]
        var2 == a[n][1]
        val2 == a[n][2]
        overlap_indices == overlaps(var1, var2)
    IN IF var1 = var2 THEN "skip"
       ELSE IF overlap_indices = <<>> THEN "skip"
       ELSE IF overlap_indices[1] >= Len(val1) \/ overlap_indices[2] >= Len(val2)
       THEN "IndexError"
       ELSE IF val1[overlap_indices[1] + 1] # val2[overlap_indices[2] + 1]
       THEN "False"
       ELSE "ok"

\* lines 169-176: the nested loops, pair number p = (m-1) * Len(a) + (n-1)
RECURSIVE ArcsLoop(_, _)
ArcsLoop(a, p) ==
    IF p >= Len(a) * Len(a) THEN "ok"
    ELSE LET c == PairCheck(a, (p \div Len(a)) + 1, (p % Len(a)) + 1)
         IN IF c \in {"False", "IndexError"} THEN c ELSE ArcsLoop(a, p + 1)

\* the validator without its overlap loop
consistent_arcs_Unchecked(a) == "ok"

consistent_arcs(a) == ArcsLoop(a, 0)

\* the values loop without the `value in values` test
consistent_values_LengthOnly(a) ==
    \A k \in 1..Len(a) : Len(a[k][2]) = a[k][1].length

\* lines 179-183: distinct values of the right length
consistent_values(a) ==
    \A k \in 1..Len(a) :
        /\ \A m \in 1..(k - 1) : a[m][2] # a[k][2]
        /\ Len(a[k][2]) = a[k][1].length

consistent(a) ==
    LET c == consistent_arcs(a)
    IN IF c # "ok" THEN c
       ELSE IF consistent_values(a) THEN "True" ELSE "False"

\* ----------------------------------------------------- search heuristics
\* lines 196-202: the counter goes up once for every word of every
\* unassigned neighbor that differs from word in the shared cell
amount_eliminated(doms, var, a, word) ==
    Cardinality(
        {p \in UNION {{neighbor} \X doms[neighbor] :
                         neighbor \in {n \in neighbors(var) : n \notin keys(a)}} :
            \E overlap \in {overlaps(var, p[1])} :
                p[2][overlap[2] + 1] # word[overlap[1] + 1]})

\* the sort with the largest key first
StableSort_Descending(pairs) ==
    LET n == Len(pairs)
        pos(k) == 1 + Cardinality({j \in 1..n :
                          \/ pairs[j][1] > pairs[k][1]
                          \/ pairs[j][1] = pairs[k][1] /\ j < k})
    IN [p \in 1..n |-> pairs[CHOOSE k \in 1..n : pos(k) = p]]

\* line 204: list.sort is stable: a pair goes behind the pairs with a
\* smaller key and behind the earlier pairs with the same key
StableSort(pairs) ==
    LET n == Len(pairs)
        pos(k) == 1 + Cardinality({j \in 1..n :
                          \/ pairs[j][1] < pairs[k][1]
                          \/ pairs[j][1] = pairs[k][1] /\ j < k})
    IN [p \in 1..n |-> pairs[CHOOSE k \in 1..n : pos(k) = p]]

\* the values of every word of the word list, whatever Domain(var) holds
order_domain_values_WordList(doms, var, a) == IterW(words)

\* lines 194-205; the list of (count, word) pairs is built once, sorted
\* once, and the words are read off
order_domain_values(doms, var, a) ==
    LET ws == IterW(doms[var])
    IN CHOOSE values \in
           {[k \in 1..Len(ordered_domains) |-> ordered_domains[k][2]] :
               ordered_domains \in
                   {StableSort(pairs) :
                       pairs \in {[k \in 1..Len(ws) |->
                           << amount_eliminated(doms, var, a, ws[k]), ws[k] >>]}}} :
           TRUE

\* the tie-break that takes the first of the tied variables
DegreeLoop_First(ties, k, max_degree, chosen) ==
    [bound |-> TRUE, var |-> ties[1]]

\* lines 228-233: the loop over ties from position k
RECURSIVE DegreeLoop(_, _, _, _)
DegreeLoop(ties, k, max_degree, chosen) ==
    IF k > Len(ties) THEN chosen
    ELSE LET degree == Cardinality(neighbors(ties[k]))
         IN IF degree > max_degree
            THEN DegreeLoop(ties, k + 1, degree, [bound |-> TRUE, var |-> ties[k]])
            ELSE DegreeLoop(ties, k + 1, max_degree, chosen)

\* the selection by the largest domain instead of the smallest
select_unassigned_variable_Largest(doms, a) ==
    LET unassigned_vars == puzzle \ keys(a)
        sizes == {Cardinality(doms[v]) : v \in unassigned_vars}
        max_domain == CHOOSE s \in sizes : \A t \in sizes : s >= t
        ties == SelectSeq(IterV(unassigned_vars),
                          LAMBDA v : Cardinality(doms[v]) = max_domain)
    IN IF Len(ties) > 1
       THEN DegreeLoop(ties, 1, 0, [bound |-> FALSE, var |-> ties[1]])
       ELSE [bound |-> TRUE, var |-> ties[1]]

\* the assignment must be incomplete (min of an empty list raises otherwise)
select_unassigned_variable(doms, a) ==
    LET unassigned_vars == puzzle \ keys(a)
        sizes == {Cardinality(doms[v]) : v \in unassigned_vars}
        min_domain == CHOOSE s \in sizes : \A t \in sizes : s <= t
        ties == SelectSeq(IterV(unassigned_vars),
                          LAMBDA v : Cardinality(doms[v]) = min_domain)
    IN IF Len(ties) > 1
       THEN DegreeLoop(ties, 1, 0, [bound |-> FALSE, var |-> ties[1]])
       ELSE [bound |-> TRUE, var |-> ties[1]]

\* ------------------------------------------------------- the process run
NoRun == [ran |-> FALSE, err |-> "", result |-> None]

\* CrosswordCreator.__init__: every domain is a copy of the word list
NewRun(ws, vs) ==
    /\ wordOrder \in Perms(ws)
    /\ varOrder \in Perms(vs)
    /\ domains = [var \in vs |-> ws]
    /\ caller = "solve"
    /\ arcsArg = NoArcs
    /\ arcs = <<>>
    /\ ac3ret = ""
    /\ revised = FALSE
    /\ ac3Start = [var \in vs |-> ws]
    /\ stack = <<>>
    /\ assignment = <<>>
    /\ retval = None
    /\ result = None
    /\ err = ""
    /\ ncEmptied = FALSE
    /\ btInvoked = FALSE

Init ==
    /\ puzzle \in Puzzles
    /\ words \in WordLists
    /\ NewRun(words, puzzle)
    /\ pc = "solve"
    /\ run = 1
    /\ prev = NoRun
    /\ valArg = <<>>
    /\ valRet = ""

\* solve, line 92
solve_enforce_node_consistency ==
    /\ pc = "solve"
    /\ domains' = enforce_node_consistency(domains)
    /\ ncEmptied' = (\E var \in puzzle : domains'[var] = {})
    /\ caller' = "solve"
    /\ arcsArg' = NoArcs
    /\ pc' = "ac3"
    /\ UNCHANGED << puzzle, words, wordOrder, varOrder, arcs, ac3ret, revised,
                    ac3Start, stack, assignment, retval, result, err,
                    btInvoked, run, prev, valArg, valRet >>

\* ac3, lines 135-139
ac3_begin ==
    /\ pc = "ac3"
    /\ arcs' = InitialArcs(arcsArg)
    /\ ac3Start' = domains
    /\ ac3ret' = ""
    /\ pc' = "ac3loop"
    /\ UNCHANGED << puzzle, words, wordOrder, varOrder, domains, caller,
                    arcsArg, revised, stack, assignment, retval, result, err,
                    ncEmptied, btInvoked, run, prev, valArg, valRet >>

\* the while loop putting the reverse of the arc it took at the end of the
\* worklist on every turn
ac3_step_Requeue ==
    /\ pc = "ac3loop"
    /\ arcs # <<>>
    /\ \E arc \in {Head(arcs)}, rest \in {Tail(arcs)} :
       \E r \in {revise(domains, arc[1], arc[2])} :
          /\ domains' = r.domains
          /\ IF r.raised # ""
             THEN /\ pc' = "error"
                  /\ err' = r.raised
                  /\ arcs' = rest
                  /\ UNCHANGED << ac3ret, revised >>
             ELSE /\ revised' = r.revised
                  /\ err' = err
                  /\ arcs' = Append(rest, << arc[2], arc[1] >>)
                  /\ UNCHANGED << ac3ret, pc >>
    /\ UNCHANGED << puzzle, words, wordOrder, varOrder, caller, arcsArg,
                    ac3Start, stack, assignment, retval, result, ncEmptied,
                    btInvoked, run, prev, valArg, valRet >>

\* ac3, lines 140-152: one turn of the while loop
ac3_step ==
    /\ pc = "ac3loop"
    /\ arcs # <<>>
    /\ \E arc \in {Head(arcs)}, rest \in {Tail(arcs)} :
       \E r \in {revise(domains, arc[1], arc[2])} :
          /\ domains' = r.domains
          /\ IF r.raised # ""
             THEN /\ pc' = "error"
                  /\ err' = r.raised
                  /\ arcs' = rest
                  /\ UNCHANGED << ac3ret, revised >>
             ELSE /\ revised' = r.revised
                  /\ err' = err
                  /\ IF r.revised /\ r.domains[arc[1]] = {}
                     THEN /\ ac3ret' = "False"
                          /\ arcs' = rest
                          /\ pc' = "ac3done"
                     ELSE /\ arcs' = IF r.revised
                                     THEN Enqueued(rest, arc[1], arc[2])
                                     ELSE rest
                          /\ UNCHANGED << ac3ret, pc >>
    /\ UNCHANGED << puzzle, words, wordOrder, varOrder, caller, arcsArg,
                    ac3Start, stack, assignment, retval, result, ncEmptied,
                    btInvoked, run, prev, valArg, valRet >>

\* ac3, line 153
ac3_return ==
    /\ pc = "ac3loop"
    /\ arcs = <<>>
    /\ ac3ret' = "True"
    /\ pc' = "ac3done"
    /\ UNCHANGED << puzzle, words, wordOrder, varOrder, domains, caller,
                    arcsArg, arcs, revised, ac3Start, stack, assignment,
                    retval, result, err, ncEmptied, btInvoked, run, prev,
                    valArg, valRet >>

\* solve, line 94: the value of ac3 is dropped, backtrack(dict()) is called
solve_backtrack ==
    /\ pc = "ac3done"
    /\ caller = "solve"
    /\ assignment' = <<>>
    /\ pc' = "backtrack"
    /\ UNCHANGED << puzzle, words, wordOrder, varOrder, domains, caller,
                    arcsArg, arcs, ac3ret, revised, ac3Start, stack, retval,
                    result, err, ncEmptied, btInvoked, run, prev, valArg,
                    valRet >>

Top == stack[Len(stack)]
Pop == SubSeq(stack, 1, Len(stack) - 1)

\* backtrack, lines 249-253: entry of a call up to the head of its loop
backtrack_enter ==
    /\ pc = "backtrack"
    /\ btInvoked' = TRUE
    /\ IF assignment_complete(assignment)
       THEN /\ retval' = Some(assignment)
            /\ pc' = "return"
            /\ UNCHANGED << stack, err >>
       ELSE \E chosen \in {select_unassigned_variable(domains, assignment)} :
               IF ~chosen.bound
               THEN /\ pc' = "error"
                    /\ err' = "UnboundLocalError"
                    /\ UNCHANGED << stack, retval >>
               ELSE /\ \E values \in {order_domain_values(domains, chosen.var,
                                                          assignment)} :
                          stack' = Append(stack,
                              [assignment |-> assignment,
                               var |-> chosen.var,
                               values |-> values,
                               tried |-> 0,
                               before |-> domains])
                    /\ pc' = "loop"
                    /\ UNCHANGED << retval, err >>
    /\ UNCHANGED << puzzle, words, wordOrder, varOrder, domains, caller,
                    arcsArg, arcs, ac3ret, revised, ac3Start, assignment,
                    result, ncEmptied, run, prev, valArg, valRet >>

\* lines 256-257: the arcs handed to ac3 for var
NeighborArcs(var) ==
    LET ns == IterV(neighbors(var))
    IN [b \in 1..Len(ns) |-> << ns[b], var >>]

\* the loop step that never moves on to the next value
backtrack_try_NoAdvance ==
    /\ pc = "loop"
    /\ Top.values # <<>>
    /\ assignment' = Append(Top.assignment, << Top.var, Head(Top.values) >>)
    /\ arcsArg' = [none |-> FALSE, list |-> NeighborArcs(Top.var)]
    /\ caller' = "backtrack"
    /\ pc' = "ac3"
    /\ UNCHANGED << puzzle, words, wordOrder, varOrder, domains, arcs, ac3ret,
                    revised, ac3Start, stack, retval, result, err, ncEmptied,
                    btInvoked, run, prev, valArg, valRet >>

\* the loop step with the domain of var narrowed in place to the value
\* tried, and never restored
backtrack_try_Narrowing ==
    /\ pc = "loop"
    /\ Top.values # <<>>
    /\ stack' = [stack EXCEPT ![Len(stack)] =
                    [@ EXCEPT !.values = Tail(@), !.tried = @ + 1,
                              !.before = domains]]
    /\ assignment' = Append(Top.assignment, << Top.var, Head(Top.values) >>)
    /\ domains' = [domains EXCEPT ![Top.var] = {Head(Top.values)}]
    /\ arcsArg' = [none |-> FALSE, list |-> NeighborArcs(Top.var)]
    /\ caller' = "backtrack"
    /\ pc' = "ac3"
    /\ UNCHANGED << puzzle, words, wordOrder, varOrder, arcs, ac3ret,
                    revised, ac3Start, retval, result, err, ncEmptied,
                    btInvoked, run, prev, valArg, valRet >>

\* the loop step that writes the candidate into the dict of the calling
\* frame instead of into a copy
backtrack_try_InPlace ==
    /\ pc = "loop"
    /\ Top.values # <<>>
    /\ stack' = [stack EXCEPT ![Len(stack)] =
                    [@ EXCEPT !.values = Tail(@), !.tried = @ + 1,
                              !.before = domains,
                              !.assignment =
                                  Append(@, << Top.var, Head(Top.values) >>)]]
    /\ assignment' = Append(Top.assignment, << Top.var, Head(Top.values) >>)
    /\ arcsArg' = [none |-> FALSE, list |-> NeighborArcs(Top.var)]
    /\ caller' = "backtrack"
    /\ pc' = "ac3"
    /\ UNCHANGED << puzzle, words, wordOrder, varOrder, domains, arcs, ac3ret,
                    revised, ac3Start, retval, result, err, ncEmptied,
                    btInvoked, run, prev, valArg, valRet >>

\* backtrack, lines 253-258: the next value of the loop, up to the ac3 call
backtrack_try ==
    /\ pc = "loop"
    /\ Top.values # <<>>
    /\ stack' = [stack EXCEPT ![Len(stack)] =
                    [@ EXCEPT !.values = Tail(@), !.tried = @ + 1,
                              !.before = domains]]
    /\ assignment' = Append(Top.assignment, << Top.var, Head(Top.values) >>)
    /\ arcsArg' = [none |-> FALSE, list |-> NeighborArcs(Top.var)]
    /\ caller' = "backtrack"
    /\ pc' = "ac3"
    /\ UNCHANGED << puzzle, words, wordOrder, varOrder, domains, arcs, ac3ret,
                    revised, ac3Start, retval, result, err, ncEmptied,
                    btInvoked, run, prev, valArg, valRet >>

\* backtrack, lines 259-260: after ac3, the consistent test and the recursion
backtrack_check ==
    /\ pc = "ac3done"
    /\ caller = "backtrack"
    /\ \E c \in {consistent(assignment)} :
          /\ pc' = CASE c = "True" -> "backtrack"
                     [] c = "False" -> "loop"
                     [] OTHER -> "error"
          /\ err' = IF c \in {"True", "False"} THEN err ELSE c
    /\ UNCHANGED << puzzle, words, wordOrder, varOrder, domains, caller,
                    arcsArg, arcs, ac3ret, revised, ac3Start, stack,
                    assignment, retval, result, ncEmptied, btInvoked, run,
                    prev, valArg, valRet >>

\* backtrack, line 263: the loop ran out of values
backtrack_fail ==
    /\ pc = "loop"
    /\ Top.values = <<>>
    /\ stack' = Pop
    /\ retval' = None
    /\ pc' = "return"
    /\ UNCHANGED << puzzle, words, wordOrder, varOrder, domains, caller,
                    arcsArg, arcs, ac3ret, revised, ac3Start, assignment,
                    result, err, ncEmptied, btInvoked, run, prev, valArg,
                    valRet >>

\* `if result:` an empty dict and None are false
Truthy(r) == ~r.none /\ r.dict # <<>>

\* a backtrack call returns: to solve (line 94) or into the loop of the
\* calling backtrack (lines 260-262)
backtrack_return ==
    /\ pc = "return"
    /\ IF stack = <<>>
       THEN /\ result' = retval
            /\ pc' = "done"
            /\ UNCHANGED stack
       ELSE IF Truthy(retval)
       THEN /\ stack' = Pop
            /\ UNCHANGED << pc, result >>
       ELSE /\ pc' = "loop"
            /\ UNCHANGED << stack, result >>
    /\ UNCHANGED << puzzle, words, wordOrder, varOrder, domains, caller,
                    arcsArg, arcs, ac3ret, revised, ac3Start, assignment,
                    retval, err, ncEmptied, btInvoked, run, prev, valArg,
                    valRet >>

\* main, lines 283-288: the result is reported and the process ends; its
\* memory is gone, only the outcome remains to compare the next run with
main_exit ==
    /\ pc \in {"done", "error"}
    /\ prev' = [ran |-> TRUE, err |-> err, result |-> result]
    /\ wordOrder' = <<>>
    /\ varOrder' = <<>>
    /\ domains' = [var \in puzzle |-> words]
    /\ caller' = "solve"
    /\ arcsArg' = NoArcs
    /\ arcs' = <<>>
    /\ ac3ret' = ""
    /\ revised' = FALSE
    /\ ac3Start' = [var \in puzzle |-> words]
    /\ stack' = <<>>
    /\ assignment' = <<>>
    /\ retval' = None
    /\ result' = None
    /\ err' = ""
    /\ ncEmptied' = FALSE
    /\ btInvoked' = FALSE
    /\ pc' = "exited"
    /\ UNCHANGED << puzzle, words, run, valArg, valRet >>

\* main, lines 278-280 again: a new process creates a new CrosswordCreator
\* for the same structure and word list and solves it
main_again ==
    /\ pc = "exited"
    /\ run < MaxRuns
    /\ run' = run + 1
    /\ wordOrder' \in Perms(words)
    /\ varOrder' \in Perms(puzzle)
    /\ pc' = "solve"
    /\ UNCHANGED << puzzle, words, domains, caller, arcsArg, arcs, ac3ret,
                    revised, ac3Start, stack, assignment, retval, result, err,
                    ncEmptied, btInvoked, prev, valArg, valRet >>

Next ==
    \/ solve_enforce_node_consistency
    \/ ac3_begin
    \/ ac3_step
    \/ ac3_return
    \/ solve_backtrack
    \/ backtrack_enter
    \/ backtrack_try
    \/ backtrack_check
    \/ backtrack_fail
    \/ backtrack_return
    \/ main_exit
    \/ main_again

Spec == Init /\ [][Next]_vars

\* one run of solve(); the interpreter always takes the next step of the
\* running call
NextT ==
    \/ solve_enforce_node_consistency
    \/ ac3_begin
    \/ ac3_step
    \/ ac3_return
    \/ solve_backtrack
    \/ backtrack_enter
    \/ backtrack_try
    \/ backtrack_check
    \/ backtrack_fail
    \/ backtrack_return

SpecT == Init /\ [][NextT]_vars /\ WF_vars(NextT)

\* ---------------------------------------------------- revise on its own
\* a creator right after construction or right after node consistency, in
\* a process with its own iteration orders
InitR ==
    /\ puzzle \in Puzzles
    /\ words \in WordLists
    /\ wordOrder \in Perms(words)
    /\ varOrder \in Perms(puzzle)
    /\ domains \in {[var \in puzzle |-> words],
                    enforce_node_consistency([var \in puzzle |-> words])}
    /\ caller = "solve"
    /\ arcsArg = NoArcs
    /\ arcs = <<>>
    /\ ac3ret = ""
    /\ revised = FALSE
    /\ ac3Start = domains
    /\ stack = <<>>
    /\ assignment = <<>>
    /\ retval = None
    /\ result = None
    /\ err = ""
    /\ ncEmptied = FALSE
    /\ btInvoked = FALSE
    /\ pc = "reviser"
    /\ run = 1
    /\ prev = NoRun
    /\ valArg = <<>>
    /\ valRet = ""

\* revise(x, y) (lines 107-124) called on any two different variables
revise_call ==
    /\ pc = "reviser"
    /\ \E x \in puzzle, y \in puzzle :
          /\ x # y
          /\ \E r \in {revise(domains, x, y)} :
                /\ domains' = r.domains
                /\ valArg' = << x, y >>
                /\ valRet' = IF r.raised # "" THEN r.raised
                             ELSE IF r.revised THEN "True" ELSE "False"
    /\ pc' = "revised"
    /\ UNCHANGED << puzzle, words, wordOrder, varOrder, caller, arcsArg, arcs,
                    ac3ret, revised, ac3Start, stack, assignment, retval,
                    result, err, ncEmptied, btInvoked, run, prev >>

NextR == revise_call

SpecR == InitR /\ [][NextR]_vars

\* ------------------------------------------------- the validator on its own
\* every dict over the variables of the puzzle and the words of the list
Assignments ==
    {a \in UNION {[1..n -> puzzle \X words] : n \in 0..Cardinality(puzzle)} :
        \A m, n \in 1..Len(a) : m # n => a[m][1] # a[n][1]}

InitV ==
    /\ puzzle \in Puzzles
    /\ words \in WordLists
    /\ wordOrder = <<>>
    /\ varOrder = <<>>
    /\ domains = [var \in puzzle |-> words]
    /\ caller = "solve"
    /\ arcsArg = NoArcs
    /\ arcs = <<>>
    /\ ac3ret = ""
    /\ revised = FALSE
    /\ ac3Start = [var \in puzzle |-> words]
    /\ stack = <<>>
    /\ assignment = <<>>
    /\ retval = None
    /\ result = None
    /\ err = ""
    /\ ncEmptied = FALSE
    /\ btInvoked = FALSE
    /\ pc = "validator"
    /\ run = 1
    /\ prev = NoRun
    /\ valArg = <<>>
    /\ valRet = ""

\* consistent(assignment) called with any assignment
consistent_call ==
    /\ pc = "validator"
    /\ \E a \in Assignments :
          /\ valArg' = a
          /\ valRet' = consistent(a)
    /\ pc' = "validated"
    /\ UNCHANGED << puzzle, words, wordOrder, varOrder, domains, caller,
                    arcsArg, arcs, ac3ret, revised, ac3Start, stack,
                    assignment, retval, result, err, ncEmptied, btInvoked,
                    run, prev >>

\* assignment_complete (lines 155-160) called on any dict
assignment_complete_call ==
    /\ pc = "validator"
    /\ \E a \in Assignments :
          /\ valArg' = a
          /\ valRet' = IF assignment_complete(a) THEN "True" ELSE "False"
    /\ pc' = "completed"
    /\ UNCHANGED << puzzle, words, wordOrder, varOrder, domains, caller,
                    arcsArg, arcs, ac3ret, revised, ac3Start, stack,
                    assignment, retval, result, err, ncEmptied, btInvoked,
                    run, prev >>

NextV ==
    \/ consistent_call
    \/ assignment_complete_call

SpecV == InitV /\ [][NextV]_vars

\* ------------------------------------------------------------ properties
\* the three constraints on an assignment, stated over pairs of entries
OverlapsAgree(a) ==
    \A m, n \in 1..Len(a) :
        LET o == overlaps(a[m][1], a[n][1])
        IN (m # n /\ o # <<>>) =>
              /\ o[1] < Len(a[m][2])
              /\ o[2] < Len(a[n][2])
              /\ a[m][2][o[1] + 1] = a[n][2][o[2] + 1]

LengthsFit(a) == \A m \in 1..Len(a) : Len(a[m][2]) = a[m][1].length

AllDistinct(a) == \A m, n \in 1..Len(a) : m # n => a[m][2] # a[n][2]

OneWordPerVariable(a) ==
    /\ keys(a) = puzzle
    /\ Len(a) = Cardinality(puzzle)

Finished == pc \in {"done", "error"}
Returned == pc = "done"

\* C1: a result of solve() other than None maps every variable to exactly
\* one word, the words agree at every overlap, fit their variables' lengths
\* and are pairwise distinct.
C1_ResultCompleteConsistent ==
    (Returned /\ ~result.none) =>
        /\ OneWordPerVariable(result.dict)
        /\ OverlapsAgree(result.dict)
        /\ LengthsFit(result.dict)
        /\ AllDistinct(result.dict)

C1_Witness ==
    /\ Returned
    /\ ~result.none
    /\ Len(result.dict) = 3
    /\ \E v \in puzzle : neighbors(v) # {}

\* a complete consistent assignment over the word list exists
SolutionExists ==
    \E f \in [puzzle -> words] :
        /\ \A v \in puzzle : Len(f[v]) = v.length
        /\ \A v, u \in puzzle : v # u => f[v] # f[u]
        /\ \A v, u \in puzzle :
              LET o == overlaps(v, u)
              IN (v # u /\ o # <<>>) => f[v][o[1] + 1] = f[u][o[2] + 1]

\* C2: whenever a complete consistent assignment exists, solve() returns an
\* assignment (never None, never an exception), also for puzzles whose
\* variables do not intersect.
C2_SolvableIsSolved ==
    (Finished /\ SolutionExists) => (Returned /\ ~result.none)

ArcConsistent(doms) ==
    \A x, y \in puzzle :
        LET o == overlaps(x, y)
        IN (x # y /\ o # <<>>) =>
              \A wx \in doms[x] : \E wy \in doms[y] : wx[o[1] + 1] = wy[o[2] + 1]

\* C3: after an ac3 call that returned True every word of Domain(x) has a
\* supporting word in Domain(y), for every overlapping pair (x, y).
C3_Ac3SuccessArcConsistent ==
    (pc = "ac3done" /\ ac3ret = "True") => ArcConsistent(domains)

\* two overlapping variables with non-empty domains and no agreeing pair
NoAgreeingPair(doms) ==
    \E x, y \in puzzle :
        LET o == overlaps(x, y)
        IN /\ x # y
           /\ o # <<>>
           /\ doms[x] # {}
           /\ doms[y] # {}
           /\ \A wx \in doms[x] : \A wy \in doms[y] : wx[o[1] + 1] # wy[o[2] + 1]

EmptiedDuringAc3 == \E v \in puzzle : ac3Start[v] # {} /\ domains[v] = {}

\* C4: ac3 returns False exactly when some domain became empty during the
\* propagation; for two overlapping variables without an agreeing pair of
\* words it returns False and leaves a domain empty.
C4_Ac3FailureIffEmptied ==
    /\ (pc = "ac3done" \/ (pc = "error" /\ err = "RuntimeError")) =>
          ((ac3ret = "False") <=> EmptiedDuringAc3)
    /\ (pc = "ac3done" /\ NoAgreeingPair(ac3Start)) =>
          (ac3ret = "False" /\ \E v \in puzzle : domains[v] = {})

\* C5: when the loop of a backtrack call comes back to its head after a
\* rejected candidate, the domains are what they were before that
\* candidate's branch ran.
C5_BranchIsolation ==
    (pc = "loop" /\ Top.tried > 0) => domains = Top.before

C5_Witness ==
    /\ pc = "loop"
    /\ Len(stack) >= 2
    /\ Top.tried > 0
    /\ Top.values # <<>>
    /\ neighbors(Top.var) # {}

\* C6: when enforce_node_consistency left a domain empty, or the full ac3
\* returned False, backtrack is never invoked and solve() returns None.
C6_NoBacktrackWhenUnsolvable ==
    (ncEmptied \/ (caller = "solve" /\ ac3ret = "False")) =>
        /\ ~btInvoked
        /\ Finished => (Returned /\ result.none)

\* C7: consistent(assignment) is True exactly when the overlaps agree, the
\* lengths fit and the words are pairwise distinct.
C7_ConsistentIffConstraints ==
    pc = "validated" =>
        (valRet = "True" <=>
            (OverlapsAgree(valArg) /\ LengthsFit(valArg) /\ AllDistinct(valArg)))

C7_Witness ==
    /\ pc = "validated"
    /\ valRet = "True"
    /\ Len(valArg) = Cardinality(puzzle)
    /\ \E m, n \in 1..Len(valArg) :
          m # n /\ overlaps(valArg[m][1], valArg[n][1]) = <<>>

\* C8: after enforce_node_consistency every word left in Domain(v) has
\* length v.length.
C8_NodeConsistent ==
    pc \notin {"solve", "exited", "validator", "validated"} =>
        \A v \in puzzle : \A w \in domains[v] : Len(w) = v.length

C8_Witness ==
    /\ pc = "ac3"
    /\ caller = "solve"
    /\ \E v \in puzzle : domains[v] # {} /\ domains[v] # words

\* the words of Domain(x) that have a supporting word in Domain(y)
Supported(doms, x, y) ==
    LET o == overlaps(x, y)
    IN {wx \in doms[x] : \E wy \in doms[y] : wx[o[1] + 1] = wy[o[2] + 1]}

\* C9: revise(x, y) on overlapping x and y leaves in Domain(x) exactly the
\* supported words and returns True exactly when Domain(x) changed.
C9_ReviseLeavesSupported ==
    [][ac3_step =>
          LET x == Head(arcs)[1]
              y == Head(arcs)[2]
          IN /\ domains'[x] = Supported(domains, x, y)
             /\ pc' # "error" => (revised' <=> domains'[x] # domains[x])]_vars

\* C10: two runs of solve() on the same structure and word list that both
\* return give the same assignment, or both None, whatever the iteration
\* orders of the sets.
C10_SameResultEveryRun ==
    (prev.ran /\ prev.err = "" /\ Returned) =>
        /\ result.none = prev.result.none
        /\ SeqSet(result.dict) = SeqSet(prev.result.dict)

\* C11: an empty domain never ends solve() in an exception raised by the
\* consistency passes; the run ends by returning an assignment or None.
C11_EmptyDomainNotFatal ==
    (\E v \in puzzle : domains[v] = {}) => ~(pc = "error" /\ err = "RuntimeError")

\* C12: solve() terminates: every run that starts reaches the end of
\* solve(), by a return or by an exception; along the chain of backtrack
\* calls the assignment grows by one word per call and there are never more
\* calls than variables.
AssignmentGrows ==
    /\ Len(stack) <= Cardinality(puzzle)
    /\ \A d \in 1..Len(stack) : Len(stack[d].assignment) = d - 1

C12_SolveTerminates == []AssignmentGrows /\ ((pc = "solve") ~> Finished)

C12_Witness ==
    /\ Returned
    /\ result.none
    /\ btInvoked
    /\ Cardinality(puzzle) >= 2
    /\ \A v \in puzzle : Cardinality(domains[v]) >= 2


\* C13: assignment_complete(assignment) is True exactly when every variable
\* of the puzzle has a word in the assignment.
EveryVariableAssigned(a) ==
    \A v \in puzzle : \E m \in 1..Len(a) : a[m][1] = v

C13_CompleteIffAllAssigned ==
    pc = "completed" => (valRet = "True" <=> EveryVariableAssigned(valArg))

C13_Witness ==
    /\ pc = "completed"
    /\ valRet = "False"
    /\ valArg # <<>>
    /\ Cardinality(puzzle) >= 2

\* C14: when ac3 is given an explicit list of arcs, the empty list of a
\* variable without neighbors included, the worklist starts as that list;
\* it starts as all arcs of the puzzle only when no list is given.
C14_WorklistStartsAsGiven ==
    [][(pc = "ac3" /\ pc' = "ac3loop") =>
          arcs' = IF arcsArg.none THEN AllArcs ELSE arcsArg.list]_vars

\* C15: when the ac3 call of backtrack for a candidate word has returned,
\* every word left in the domain of each neighbor of the variable agrees
\* with the candidate at the cell they share.
C15_NeighborsAgreeWithChoice ==
    (pc = "ac3done" /\ caller = "backtrack") =>
        LET var == assignment[Len(assignment)][1]
            value == assignment[Len(assignment)][2]
        IN \A neighbor \in neighbors(var) : \A w \in domains[neighbor] :
               LET overlap == overlaps(neighbor, var)
               IN w[overlap[1] + 1] = value[overlap[2] + 1]

\* C16: when a turn of the ac3 loop has changed Domain(x) by revise(x, y)
\* without emptying it, every arc (z, x) with z a neighbor of x other than
\* y is on the worklist right after it, and no arc is on the worklist twice.
NoArcTwice(queue) ==
    \A m, n \in 1..Len(queue) : m # n => queue[m] # queue[n]

C16_ChangedDomainRequeuesNeighbors ==
    [][(pc = "ac3loop" /\ arcs # <<>> /\ domains' # domains
            /\ domains'[Head(arcs)[1]] # {}) =>
          /\ \A z \in neighbors(Head(arcs)[1]) \ {Head(arcs)[2]} :
                 << z, Head(arcs)[1] >> \in SeqSet(arcs')
          /\ NoArcTwice(arcs')]_vars

\* C17: every call of ac3 ends. A turn of the while loop adds no word to a
\* domain, and unless it leaves the loop it lowers a natural number: the
\* length of the worklist plus, for every word still in a domain, more than
\* the number of arcs one turn can enqueue. So the loop takes finitely many
\* turns, whatever the domains and the initial arcs are.
WordsLeft == Cardinality(UNION {{v} \X domains[v] : v \in puzzle})

Ac3Measure == Len(arcs) + (Cardinality(puzzle) + 1) * WordsLeft

C17_Ac3Terminates ==
    [][pc = "ac3loop" =>
          /\ \A v \in puzzle : domains'[v] \subseteq domains[v]
          /\ \/ pc' \in {"ac3done", "error"}
             \/ Ac3Measure' < Ac3Measure]_vars

C17_Witness ==
    /\ pc = "ac3done"
    /\ caller = "backtrack"
    /\ ~arcsArg.none
    /\ Len(arcsArg.list) >= 2
    /\ arcs = <<>>

\* a backtrack call has just selected Top.var and stands at the head of
\* its loop; the domains are those the selection saw
JustSelected == pc = "loop" /\ Top.tried = 0

Unassigned(a) == {v \in puzzle : \A m \in 1..Len(a) : a[m][1] # v}

\* C18: the variable select_unassigned_variable returns is not in the
\* assignment, and no unassigned variable has a smaller domain.
C18_SelectsMinimumRemainingValues ==
    JustSelected =>
        /\ Top.var \in Unassigned(Top.assignment)
        /\ \A v \in Unassigned(Top.assignment) :
               Cardinality(domains[Top.var]) <= Cardinality(domains[v])

C18_Witness ==
    /\ JustSelected
    /\ \E v \in Unassigned(Top.assignment) :
          Cardinality(domains[Top.var]) < Cardinality(domains[v])

\* C19: among the unassigned variables that tie for the smallest domain,
\* the variable returned has the most neighbors.
Tied(a) ==
    {v \in Unassigned(a) :
        \A u \in Unassigned(a) : Cardinality(domains[v]) <= Cardinality(domains[u])}

C19_TieBrokenByDegree ==
    JustSelected =>
        \A v \in Tied(Top.assignment) :
            Cardinality(neighbors(v)) <= Cardinality(neighbors(Top.var))

C19_Witness ==
    /\ JustSelected
    /\ Top.var \in Tied(Top.assignment)
    /\ \E v \in Tied(Top.assignment) :
          Cardinality(neighbors(v)) < Cardinality(neighbors(Top.var))

\* the words of Domain(neighbor) that differ from word of var in the cell
\* the two variables share
Disagreeing(var, word, neighbor) ==
    {w \in domains[neighbor] :
        LET overlap == overlaps(var, neighbor)
        IN w[overlap[2] + 1] # word[overlap[1] + 1]}

RECURSIVE SumOver(_, _, _)
SumOver(S, var, word) ==
    IF S = {} THEN 0
    ELSE LET n == CHOOSE n \in S : TRUE
         IN Cardinality(Disagreeing(var, word, n)) + SumOver(S \ {n}, var, word)

EliminationCount(var, a, word) ==
    SumOver(neighbors(var) \cap Unassigned(a), var, word)

\* C20: order_domain_values returns every word of Domain(var) exactly once,
\* in non-decreasing order of the number of words it rules out in the
\* domains of the unassigned neighbors of var.
C20_ValuesOrderedByEliminationCount ==
    JustSelected =>
        /\ SeqSet(Top.values) = domains[Top.var]
        /\ Len(Top.values) = Cardinality(domains[Top.var])
        /\ \A m, n \in 1..Len(Top.values) :
               m < n => EliminationCount(Top.var, Top.assignment, Top.values[m])
                          <= EliminationCount(Top.var, Top.assignment, Top.values[n])

C20_Witness ==
    /\ JustSelected
    /\ Len(Top.values) >= 2
    /\ EliminationCount(Top.var, Top.assignment, Top.values[1])
          < EliminationCount(Top.var, Top.assignment, Top.values[Len(Top.values)])

\* C21: revise(x, y) for two variables that share no cell changes no domain
\* and returns False.
C21_ReviseNoOverlapNoOp ==
    [][(pc = "reviser" /\ pc' = "revised"
            /\ overlaps(valArg'[1], valArg'[2]) = <<>>) =>
          (domains' = domains /\ valRet' = "False")]_vars

C21_Witness ==
    /\ pc = "revised"
    /\ overlaps(valArg[1], valArg[2]) = <<>>
    /\ domains[valArg[1]] # {}
    /\ domains[valArg[2]] = {}

\* C22: across enforce_node_consistency and every step of ac3 and revise
\* the domain of each variable is a subset of what it was before the step,
\* so a word that was removed is never back in its domain.
C22_DomainsOnlyShrink ==
    [][(pc = "solve" \/ pc = "ac3" \/ pc = "ac3loop") =>
          (\A v \in puzzle :
              domains'[v] \subseteq domains[v] /\ domains'[v] \subseteq words)]_vars

C22_Witness ==
    /\ pc = "error"
    /\ err = "RuntimeError"
    /\ \E v \in puzzle : domains[v] # ac3Start[v] /\ domains[v] \subseteq ac3Start[v]
    /\ \E u \in puzzle : ac3Start[u] # words

\* C23: backtrack never mutates the assignment it was given.  While a call
\* is active its own assignment keeps the entries it was called with, every
\* candidate it explores is that assignment extended by one entry for the
\* selected variable, and when a nested call returns failure the caller
\* resumes its loop with the assignment it had before the call.
FramesKeepAssignment ==
    \A i \in 1..Len(stack) :
        i <= Len(stack') => stack'[i].assignment = stack[i].assignment

ExtendedByOne(a, b) ==
    /\ Len(b) = Len(a) + 1
    /\ SubSeq(b, 1, Len(a)) = a
    /\ b[Len(b)][1] \notin keys(a)

C23_BacktrackLeavesAssignment ==
    [][/\ FramesKeepAssignment
       /\ (pc = "loop" /\ pc' = "ac3") =>
              (ExtendedByOne(Top.assignment, assignment')
                  /\ assignment'[Len(assignment')][1] = Top.var)
       /\ (pc = "return" /\ pc' = "loop") =>
              (Top'.assignment = Top.assignment)]_vars

C23_Witness ==
    /\ pc = "loop"
    /\ retval = None
    /\ Top.tried > 0
    /\ Top.assignment # <<>>
    /\ Len(assignment) > Len(Top.assignment) + 1

\* C24: for every incomplete assignment a backtrack call is entered
\* with, select_unassigned_variable returns an unassigned variable of the
\* puzzle; it never ends with no variable chosen, ties between variables
\* that have no neighbors included.
C24_SelectAlwaysReturnsVariable ==
    (pc = "backtrack" /\ ~assignment_complete(assignment)) =>
        \E chosen \in {select_unassigned_variable(domains, assignment)} :
            /\ chosen.bound
            /\ chosen.var \in puzzle
            /\ chosen.var \notin keys(assignment)

\* C25: every word of every assignment that backtrack builds or returns,
\* and of the result of solve, is a word of the word list; and the word a
\* backtrack call puts into a candidate is, at that moment, in the Domain
\* of the variable it is chosen for.
WordsOf(a) == {a[k][2] : k \in 1..Len(a)}

AssignedFromWordList ==
    /\ WordsOf(assignment) \subseteq words
    /\ \A i \in 1..Len(stack) :
           /\ WordsOf(stack[i].assignment) \subseteq words
           /\ SeqSet(stack[i].values) \subseteq words
    /\ WordsOf(retval.dict) \subseteq words
    /\ WordsOf(result.dict) \subseteq words

ChosenFromDomain ==
    (pc = "loop" /\ pc' = "ac3") =>
        /\ assignment'[Len(assignment')] \in {Top.var} \X domains[Top.var]
        /\ WordsOf(assignment') \subseteq words

C25_AssignedWordsComeFromDomain ==
    []AssignedFromWordList /\ [][ChosenFromDomain]_vars

C25_Witness ==
    /\ pc = "done"
    /\ ~result.none
    /\ Len(result.dict) >= 2
    /\ assignment_complete(result.dict)
    /\ \E k \in 1..Len(result.dict) : domains[result.dict[k][1]] # words

=============================================================================
